---- MODULE Spec2Model ----
(***************************************************************************)
(* A model of the Development-Project-Index program: the index store of   *)
(* src/schema.py, the two fetchers (src/github_indexer.py and             *)
(* src/huggingface_indexer.py) and the orchestrator of                    *)
(* src/index_projects.py.                                                 *)
(***************************************************************************)
EXTENDS Integers, Sequences, FiniteSets, TLC

VARIABLES
    pc,              \* position of main() in the current run
    runs,            \* number of runs started so far
    creds,           \* the environment's token per platform: missing, rejected, valid
    github_indexer,  \* TRUE when main's github_indexer is not None
    hf_indexer,      \* TRUE when main's hf_indexer is not None
    projects,        \* index.projects of the run's ProjectIndex
    file,            \* data/project_index.json
    organized,       \* data/organized/<category>.json, <<>> when the file does not exist
    outcome,         \* per category, what main's last fetch step got: none, ok, failed
    batch,           \* the list main handed to merge_projects in its last fetch step
    durable,         \* the last snapshot write that ran to completion
    arg,             \* input of the function applied in SpecMerge and SpecFetch
    ret,             \* its result
    calls            \* how often it has been applied

vars == <<pc, runs, creds, github_indexer, hf_indexer, projects, file, organized,
          outcome, batch, durable, arg, ret, calls>>

runVars == <<pc, runs, creds, github_indexer, hf_indexer, file, organized,
             outcome, batch, durable>>

(***************************************************************************)
(* Values.                                                                 *)
(***************************************************************************)

\* Optional[datetime]: None, or a timezone-aware / naive datetime at instant t.
NoDate == [present |-> FALSE, aware |-> FALSE, t |-> 0]

AwareDate(t) == [present |-> TRUE, aware |-> TRUE, t |-> t]

\* datetime.min: the earliest datetime, timezone-naive.
datetime_min == [present |-> TRUE, aware |-> FALSE, t |-> 0]

\* The ISO-8601 strings the platforms send and the snapshot stores.
IsoStrings == <<"2020-01-01T00:00:00Z", "2021-01-01T00:00:00Z">>

\* datetime.fromisoformat(s.replace("Z", "+00:00")): the instant of s, 0 when s does
\* not parse (the call raises ValueError, or AttributeError when s is null).
fromisoformat(s) ==
    IF \E i \in 1..Len(IsoStrings) : IsoStrings[i] = s
    THEN CHOOSE i \in 1..Len(IsoStrings) : IsoStrings[i] = s
    ELSE 0

\* The JSON encoding of an Optional[datetime] (json_encoders / model_dump_json).
isoformat(d) == IF d.present THEN IsoStrings[d.t] ELSE "null"

\* Project(...): the fields the index logic reads; description stands for the
\* record's remaining content (name, url, updated_at, language, topics).
Project(source, type, full_name, description, created_at) ==
    [source |-> source, type |-> type, full_name |-> full_name,
     description |-> description, created_at |-> created_at]

(***************************************************************************)
(* src/schema.py: ProjectIndex.                                            *)
(***************************************************************************)

get_project_key(project) == project.source \o ":" \o project.full_name

\* find_project comparing whole records instead of their keys.
find_project_by_equality(ps, project) ==
    LET hits == {i \in 1..Len(ps) : ps[i] = project}
    IN IF hits = {} THEN 0 ELSE CHOOSE i \in hits : \A j \in hits : i <= j

\* The position of the first project with the key of `project`, 0 for None.
find_project(ps, project) ==
    LET key == get_project_key(project)
        hits == {i \in 1..Len(ps) : get_project_key(ps[i]) = key}
    IN IF hits = {} THEN 0 ELSE CHOOSE i \in hits : \A j \in hits : i <= j

\* list.index(x): the position of the first element equal to x.
list_index(ps, x) ==
    CHOOSE i \in 1..Len(ps) : ps[i] = x /\ \A j \in 1..(i - 1) : ps[j] # x

add_project(ps, project) == Append(ps, project)

\* merge_project that drops the old record and appends the new one.
merge_project_moves(ps, new_project) ==
    LET existing == find_project(ps, new_project)
    IN IF existing # 0
       THEN [projects |-> Append(SelectSeq(ps, LAMBDA p : p # ps[existing]), new_project),
             added |-> FALSE]
       ELSE [projects |-> add_project(ps, new_project), added |-> TRUE]

\* merge_project whose update branch lacks its return and falls through to
\* the add.
merge_project_falls_through(ps, new_project) ==
    LET existing == find_project(ps, new_project)
        updated == IF existing # 0
                   THEN [ps EXCEPT ![list_index(ps, ps[existing])] = new_project]
                   ELSE ps
    IN [projects |-> add_project(updated, new_project), added |-> TRUE]

\* merge_project: the new list and the returned flag (TRUE: added).
merge_project(ps, new_project) ==
    LET existing == find_project(ps, new_project)
    IN IF existing # 0
       THEN [projects |-> [ps EXCEPT ![list_index(ps, ps[existing])] = new_project],
             added |-> FALSE]
       ELSE [projects |-> add_project(ps, new_project), added |-> TRUE]

RECURSIVE merge_loop(_, _, _, _, _)
merge_loop(ps, new_projects, i, added, updated) ==
    IF i > Len(new_projects)
    THEN [projects |-> ps, added |-> added, updated |-> updated]
    ELSE LET m == merge_project(ps, new_projects[i])
         IN IF m.added
            THEN merge_loop(m.projects, new_projects, i + 1, added + 1, updated)
            ELSE merge_loop(m.projects, new_projects, i + 1, added, updated + 1)

merge_projects(ps, new_projects) == merge_loop(ps, new_projects, 1, 0, 0)

\* get_by_source comparing the type with the source name.
get_by_source_by_type(ps, source) == SelectSeq(ps, LAMBDA p : p.type = source)

get_by_source(ps, source) == SelectSeq(ps, LAMBDA p : p.source = source)

get_by_type(ps, project_type) == SelectSeq(ps, LAMBDA p : p.type = project_type)

\* key=lambda x: x.created_at or datetime.min (a datetime is always truthy).
sort_key(p) == IF p.created_at.present THEN p.created_at ELSE datetime_min

\* Comparing an offset-naive with an offset-aware datetime raises TypeError.
compare_raises(a, b) == a.aware # b.aware

\* list.sort(key=..., reverse=reverse): a stable sort.  Any order of a list
\* that holds both a naive and an aware key rests on at least one comparison
\* between the two kinds, so the sort raises exactly when both are present;
\* the exception leaves main, and the list with it.
sort_by_date(ps, reverse) ==
    LET n == Len(ps)
        before(i, j) ==
            IF sort_key(ps[i]).t = sort_key(ps[j]).t THEN i < j
            ELSE IF reverse THEN sort_key(ps[i]).t > sort_key(ps[j]).t
                 ELSE sort_key(ps[i]).t < sort_key(ps[j]).t
        rank(i) == 1 + Cardinality({j \in 1..n : before(j, i)})
    IN IF \E i, j \in 1..n : compare_raises(sort_key(ps[i]), sort_key(ps[j]))
       THEN [raised |-> TRUE, projects |-> ps]
       ELSE [raised |-> FALSE,
             projects |-> [k \in 1..n |-> ps[CHOOSE i \in 1..n : rank(i) = k]]]

\* model_dump_json / ProjectIndex(**data): datetimes travel as ISO strings.
to_json(ps) ==
    [i \in 1..Len(ps) |-> [ps[i] EXCEPT !.created_at = isoformat(ps[i].created_at)]]

from_json(js) ==
    [i \in 1..Len(js) |->
        [js[i] EXCEPT !.created_at =
            IF js[i].created_at = "null" THEN NoDate
            ELSE AwareDate(fromisoformat(js[i].created_at))]]

(***************************************************************************)
(* The platforms.  A raw item is the JSON object the platform sends: a     *)
(* record whose DOMAIN holds the keys that are present, of the keys the    *)
(* model reads.                                                            *)
(***************************************************************************)

\* d.get(key, default)
dict_get(d, key, default) == IF key \in DOMAIN d THEN d[key] ELSE default

\* A GitHub listing endpoint: the account lookup (GET /user) and the pages the
\* listing returns, page p being pages[p]; beyond the last page the listing
\* is empty.  A response with ok = FALSE makes raise_for_status raise.
get_page(endpoint, page) ==
    IF page <= Len(endpoint.pages) THEN endpoint.pages[page]
    ELSE [ok |-> TRUE, items |-> <<>>]

per_page == 100

(***************************************************************************)
(* src/github_indexer.py: GitHubIndexer.                                   *)
(***************************************************************************)

\* What a fetch hands back: raised = TRUE when an exception left it (nothing
\* is returned then), the projects returned, the page numbers it requested.
Raised(requests) == [raised |-> TRUE, projects |-> <<>>, requests |-> requests]

Returned(ps, requests) == [raised |-> FALSE, projects |-> ps, requests |-> requests]

\* Building the Project of a raw repository raises when a key it indexes is
\* absent or created_at is no ISO string.
repo_raises(repo) ==
    \/ ~({"full_name", "created_at"} \subseteq DOMAIN repo)
    \/ fromisoformat(repo.created_at) = 0

repo_project(repo) ==
    Project("GitHub", "Repository", repo.full_name,
            dict_get(repo, "description", "null"),
            AwareDate(fromisoformat(repo.created_at)))

RECURSIVE repos_loop(_, _, _, _)
repos_loop(endpoint, page, ps, requests) ==
    LET response == get_page(endpoint, page)
        asked == Append(requests, page)
        repos == response.items
        public == SelectSeq(repos, LAMBDA r : ~dict_get(r, "private", FALSE))
    IN IF ~response.ok THEN Raised(asked)
       ELSE IF repos = <<>> THEN Returned(ps, asked)
       ELSE IF \E i \in 1..Len(public) : repo_raises(public[i]) THEN Raised(asked)
       ELSE LET more == ps \o [i \in 1..Len(public) |-> repo_project(public[i])]
            IN IF Len(repos) < per_page THEN Returned(more, asked)
               ELSE repos_loop(endpoint, page + 1, more, asked)

\* The loop of fetch_public_repos without its "fewer than per_page" break: it
\* stops at an empty page only.
RECURSIVE repos_loop_until_empty(_, _, _, _)
repos_loop_until_empty(endpoint, page, ps, requests) ==
    LET response == get_page(endpoint, page)
        asked == Append(requests, page)
        repos == response.items
        public == SelectSeq(repos, LAMBDA r : ~dict_get(r, "private", FALSE))
    IN IF ~response.ok THEN Raised(asked)
       ELSE IF repos = <<>> THEN Returned(ps, asked)
       ELSE IF \E i \in 1..Len(public) : repo_raises(public[i]) THEN Raised(asked)
       ELSE repos_loop_until_empty(endpoint, page + 1,
                ps \o [i \in 1..Len(public) |-> repo_project(public[i])], asked)

fetch_public_repos_until_empty(endpoint) ==
    IF ~endpoint.user_ok THEN Raised(<<>>)
    ELSE repos_loop_until_empty(endpoint, 1, <<>>, <<>>)

fetch_public_repos(endpoint) ==
    IF ~endpoint.user_ok THEN Raised(<<>>)
    ELSE repos_loop(endpoint, 1, <<>>, <<>>)

gist_raises(gist) ==
    \/ ~({"id", "created_at"} \subseteq DOMAIN gist)
    \/ fromisoformat(gist.created_at) = 0

gist_project(username, gist) ==
    Project("GitHub", "Gist", username \o "/gist:" \o gist.id,
            dict_get(gist, "description", "null"),
            AwareDate(fromisoformat(gist.created_at)))

RECURSIVE gists_loop(_, _, _, _)
gists_loop(endpoint, page, ps, requests) ==
    LET response == get_page(endpoint, page)
        asked == Append(requests, page)
        gists == response.items
        public == SelectSeq(gists, LAMBDA g : dict_get(g, "public", TRUE))
    IN IF ~response.ok THEN Raised(asked)
       ELSE IF gists = <<>> THEN Returned(ps, asked)
       ELSE IF \E i \in 1..Len(public) : gist_raises(public[i]) THEN Raised(asked)
       ELSE LET more == ps \o [i \in 1..Len(public) |->
                                   gist_project(endpoint.login, public[i])]
            IN IF Len(gists) < per_page THEN Returned(more, asked)
               ELSE gists_loop(endpoint, page + 1, more, asked)

fetch_public_gists(endpoint) ==
    IF ~endpoint.user_ok THEN Raised(<<>>)
    ELSE gists_loop(endpoint, 1, <<>>, <<>>)

(***************************************************************************)
(* src/huggingface_indexer.py: HuggingFaceIndexer.                         *)
(***************************************************************************)

\* "limit": 500
limit == 500

\* A HuggingFace listing: the account lookup (GET /whoami-v2) and the items
\* of the account in one category; a request with limit L is answered with
\* the first L of them.
get_listing(listing, lim) ==
    IF Len(listing.items) <= lim THEN listing.items
    ELSE SubSeq(listing.items, 1, lim)

\* _parse_datetime: None for an absent, empty or unparsable string.
parse_datetime(date_str) ==
    IF date_str = "null" \/ date_str = "" \/ fromisoformat(date_str) = 0 THEN NoDate
    ELSE AwareDate(fromisoformat(date_str))

hf_project(type, item) ==
    Project("HuggingFace", type, item.id,
            dict_get(item, "description", "null"),
            parse_datetime(dict_get(item, "createdAt", "null")))

\* The shared body with the filter's default turned round: an item without a
\* "private" key is skipped as well.
fetch_public_flag_required(listing, type) ==
    IF ~listing.user_ok THEN Raised(<<>>)
    ELSE IF ~listing.ok THEN Raised(<<1>>)
    ELSE LET items == get_listing(listing, limit)
             public == SelectSeq(items, LAMBDA m : ~dict_get(m, "private", TRUE))
         IN IF \E i \in 1..Len(public) : "id" \notin DOMAIN public[i]
            THEN Raised(<<1>>)
            ELSE Returned([i \in 1..Len(public) |-> hf_project(type, public[i])], <<1>>)

\* The body shared by fetch_public_models, fetch_public_datasets and
\* fetch_public_spaces: one request, no further page.
fetch_public(listing, type) ==
    IF ~listing.user_ok THEN Raised(<<>>)
    ELSE IF ~listing.ok THEN Raised(<<1>>)
    ELSE LET items == get_listing(listing, limit)
             public == SelectSeq(items, LAMBDA m : ~dict_get(m, "private", FALSE))
         IN IF \E i \in 1..Len(public) : "id" \notin DOMAIN public[i]
            THEN Raised(<<1>>)
            ELSE Returned([i \in 1..Len(public) |-> hf_project(type, public[i])], <<1>>)

fetch_public_models(listing) == fetch_public(listing, "Model")

fetch_public_datasets(listing) == fetch_public(listing, "Dataset")

fetch_public_spaces(listing) == fetch_public(listing, "Space")

\* fetch_all with one try block around the three fetches: the first that
\* raises ends it.
fetch_all_single_try(models, datasets, spaces) ==
    LET m == fetch_public_models(models)
        d == fetch_public_datasets(datasets)
        s == fetch_public_spaces(spaces)
    IN IF m.raised THEN <<>>
       ELSE IF d.raised THEN m.projects
       ELSE IF s.raised THEN m.projects \o d.projects
       ELSE m.projects \o d.projects \o s.projects

\* fetch_all: each category in its own try/except; what raised adds nothing.
fetch_all(models, datasets, spaces) ==
    LET m == fetch_public_models(models)
        d == fetch_public_datasets(datasets)
        s == fetch_public_spaces(spaces)
    IN (IF m.raised THEN <<>> ELSE m.projects)
       \o (IF d.raised THEN <<>> ELSE d.projects)
       \o (IF s.raised THEN <<>> ELSE s.projects)

(***************************************************************************)
(* The state main() works on.                                              *)
(***************************************************************************)

Platforms == {"GitHub", "HuggingFace"}

\* The five categories, by the name of their export file.
Categories == {"github_repositories", "github_gists", "huggingface_models",
               "huggingface_datasets", "huggingface_spaces"}

NoOutcome == [c \in Categories |-> [status |-> "none", projects |-> <<>>]]

\* data/project_index.json: absent, complete (a finished write), or empty /
\* truncated (a write that was cut short).  metadata and projects are those of
\* the write that produced it.
NoFile == [state |-> "absent", metadata |-> <<>>, projects |-> <<>>]

NoOrganized == [c \in Categories |-> <<>>]

\* Before the first run: no snapshot, no export, no process.
RunIdle ==
    /\ pc = "idle"
    /\ runs = 0
    /\ creds = [p \in Platforms |-> "missing"]
    /\ github_indexer = FALSE
    /\ hf_indexer = FALSE
    /\ file = NoFile
    /\ organized = NoOrganized
    /\ outcome = NoOutcome
    /\ batch = <<>>
    /\ durable = NoFile

(***************************************************************************)
(* SpecMerge: merge_projects applied twice to an empty index, and          *)
(* merge_project applied to the index that results.                        *)
(***************************************************************************)

MaxBatch == 3

MergeNames == {"u/a", "u/b"}

MergeDomain ==
    {Project(s, IF s = "GitHub" THEN "Repository" ELSE "Model", n, d, NoDate) :
        s \in Platforms, n \in MergeNames, d \in {"d1", "d2"}}

SeqsUpTo(S, n) == UNION {[1..k -> S] : k \in 0..n}

InitMerge ==
    /\ RunIdle
    /\ projects = <<>>
    /\ arg \in SeqsUpTo(MergeDomain, MaxBatch)
    /\ ret = [op |-> "none"]
    /\ calls = 0

\* index.merge_projects(arg), for the first and for the second time.
MergeBatch ==
    /\ calls < 2
    /\ LET r == merge_projects(projects, arg)
       IN /\ projects' = r.projects
          /\ ret' = [op |-> "merge_projects", added |-> r.added, updated |-> r.updated,
                     once |-> IF calls = 0 THEN r.projects ELSE ret.once]
    /\ calls' = calls + 1
    /\ UNCHANGED <<arg, runVars>>

\* index.merge_project(b) on the index as it stands.
MergeOne ==
    /\ calls <= 2
    /\ \E b \in MergeDomain :
        LET r == merge_project(projects, b)
        IN /\ projects' = r.projects
           /\ ret' = [op |-> "merge_project", before |-> projects, new |-> b,
                      added |-> r.added]
    /\ calls' = 3
    /\ UNCHANGED <<arg, runVars>>

NextMerge == MergeBatch \/ MergeOne

SpecMerge == InitMerge /\ [][NextMerge]_vars

\* The identity of a record as the specification defines it.
KeyPair(p) == <<p.source, p.full_name>>

\* C2: merge_project(B) on an index that holds a record with B's key at
\* position i leaves exactly one record with that key, at position i and equal
\* to B, returns False, and changes neither the length nor any other record;
\* on an index without that key it appends B and returns True.
C2_MergeCorrect ==
    ret.op = "merge_project" =>
        LET before == ret.before
            b == ret.new
            at == {i \in 1..Len(before) : KeyPair(before[i]) = KeyPair(b)}
        IN IF at # {}
           THEN /\ ~ret.added
                /\ Len(projects) = Len(before)
                /\ \A i \in at : projects[i] = b
                /\ Cardinality({j \in 1..Len(projects) :
                                    KeyPair(projects[j]) = KeyPair(b)}) = 1
                /\ \A j \in 1..Len(before) : j \notin at => projects[j] = before[j]
           ELSE /\ ret.added
                /\ projects = Append(before, b)

\* A record was replaced in place, between two others that stayed.
C2_Witness ==
    /\ ret.op = "merge_project"
    /\ ~ret.added
    /\ Len(ret.before) = 3
    /\ KeyPair(ret.before[2]) = KeyPair(ret.new)
    /\ ret.before[2] # ret.new
    /\ projects[2] = ret.new

\* C3: merging the same sequence a second time changes nothing and reports
\* every record as updated.
C3_MergeIdempotent ==
    (ret.op = "merge_projects" /\ calls = 2) =>
        /\ projects = ret.once
        /\ ret.added = 0
        /\ ret.updated = Len(arg)

\* The sequence holds a key twice, with different content, and was merged twice.
C3_Witness ==
    /\ ret.op = "merge_projects"
    /\ calls = 2
    /\ Len(arg) = 3
    /\ KeyPair(arg[1]) = KeyPair(arg[3])
    /\ arg[1] # arg[3]
    /\ Len(projects) = 2

(***************************************************************************)
(* SpecFetch: each fetcher applied once to a platform endpoint.            *)
(***************************************************************************)

MaxPages == 3

\* The sizes of the pages an endpoint serves, and of an account's listing.
PageSizes == {0, 37, 100}

ListingSizes == {0, 1, 2, 37, 499, 500, 501}

Digits == <<"0", "1", "2", "3", "4", "5", "6", "7", "8", "9">>

Numeral(n) ==
    Digits[((n \div 100) % 10) + 1] \o Digits[((n \div 10) % 10) + 1] \o Digits[(n % 10) + 1]

\* The n-th item of an account; every privEvery-th one is flagged non-public
\* and every second HuggingFace item carries no createdAt.
NthItem(kind, n, privEvery) ==
    LET hidden == privEvery > 0 /\ n % privEvery = 0
    IN CASE kind = "repos" ->
              [full_name |-> "u/r" \o Numeral(n), created_at |-> IsoStrings[1],
               description |-> "d1", private |-> hidden]
         [] kind = "gists" ->
              [id |-> "g" \o Numeral(n), created_at |-> IsoStrings[2],
               description |-> "d1", public |-> ~hidden]
         [] OTHER ->
              IF n % 2 = 0
              THEN [id |-> "u/m" \o Numeral(n), description |-> "d1", private |-> hidden]
              ELSE [id |-> "u/m" \o Numeral(n), description |-> "d1", private |-> hidden,
                    createdAt |-> IsoStrings[1]]

\* A GitHub endpoint serving pages of the given sizes; page failAt (if any)
\* answers with an error status.
PagedEndpoint(kind, sizes, privEvery, failAt) ==
    [kind |-> kind, user_ok |-> TRUE, login |-> "u",
     pages |-> [p \in 1..Len(sizes) |->
                  IF p = failAt THEN [ok |-> FALSE, items |-> <<>>]
                  ELSE [ok |-> TRUE,
                        items |-> [k \in 1..sizes[p] |->
                                     NthItem(kind, per_page * (p - 1) + k, privEvery)]]]]

\* A HuggingFace account with n items in the category.
Listing(kind, n, privEvery, ok) ==
    [kind |-> kind, user_ok |-> TRUE, login |-> "u", ok |-> ok,
     items |-> [k \in 1..n |-> NthItem(kind, k, privEvery)]]

\* The same account as the platform serves it when it leaves the visibility
\* flag out of every item that is public: only the hidden items carry one.
WithoutFlag(item) ==
    IF dict_get(item, "private", FALSE) \/ ~dict_get(item, "public", TRUE) THEN item
    ELSE [k \in DOMAIN item \ {"private", "public"} |-> item[k]]

Unflagged(endpoint) ==
    IF "pages" \in DOMAIN endpoint
    THEN [endpoint EXCEPT !.pages =
            [p \in 1..Len(endpoint.pages) |->
               [endpoint.pages[p] EXCEPT !.items =
                  [k \in 1..Len(endpoint.pages[p].items) |->
                     WithoutFlag(endpoint.pages[p].items[k])]]]]
    ELSE [endpoint EXCEPT !.items =
            [k \in 1..Len(endpoint.items) |-> WithoutFlag(endpoint.items[k])]]

FetchInputs ==
    {PagedEndpoint(kind, sizes, privEvery, failAt) :
        kind \in {"repos", "gists"}, sizes \in SeqsUpTo(PageSizes, MaxPages),
        privEvery \in {0, 3}, failAt \in 0..MaxPages}
    \cup {[PagedEndpoint(kind, <<37>>, 0, 0) EXCEPT !.user_ok = FALSE] :
            kind \in {"repos", "gists"}}
    \cup {Listing(kind, n, privEvery, ok) :
            kind \in {"models", "datasets", "spaces"}, n \in ListingSizes,
            privEvery \in {0, 3}, ok \in BOOLEAN}
    \cup {Unflagged(PagedEndpoint(kind, <<100, 37>>, 3, 0)) : kind \in {"repos", "gists"}}
    \cup {Unflagged(Listing(kind, 37, 3, TRUE)) : kind \in {"models", "datasets", "spaces"}}

InitFetch ==
    /\ RunIdle
    /\ projects = <<>>
    /\ arg \in FetchInputs
    /\ ret = [op |-> "none"]
    /\ calls = 0

Fetched(op, r) ==
    /\ calls = 0
    /\ ret' = [op |-> op, raised |-> r.raised, projects |-> r.projects,
               requests |-> r.requests]
    /\ calls' = 1
    /\ UNCHANGED <<arg, projects, runVars>>

FetchRepos == arg.kind = "repos" /\ Fetched("fetch_public_repos", fetch_public_repos(arg))

FetchGists == arg.kind = "gists" /\ Fetched("fetch_public_gists", fetch_public_gists(arg))

FetchModels ==
    arg.kind = "models" /\ Fetched("fetch_public_models", fetch_public_models(arg))

FetchDatasets ==
    arg.kind = "datasets" /\ Fetched("fetch_public_datasets", fetch_public_datasets(arg))

FetchSpaces ==
    arg.kind = "spaces" /\ Fetched("fetch_public_spaces", fetch_public_spaces(arg))

NextFetch == FetchRepos \/ FetchGists \/ FetchModels \/ FetchDatasets \/ FetchSpaces

SpecFetch == InitFetch /\ [][NextFetch]_vars

IsGitHubFetch == ret.op \in {"fetch_public_repos", "fetch_public_gists"}

IsHuggingFaceFetch ==
    ret.op \in {"fetch_public_models", "fetch_public_datasets", "fetch_public_spaces"}

\* The platform's view of an item: is it public, and under which full name
\* does the index know it.
ItemIsPublic(item) ==
    /\ ~dict_get(item, "private", FALSE)
    /\ dict_get(item, "public", TRUE)

ItemFullName(kind, login, item) ==
    CASE kind = "repos" -> item.full_name
      [] kind = "gists" -> login \o "/gist:" \o item.id
      [] OTHER -> item.id

RECURSIVE ItemsOfPages(_, _)
ItemsOfPages(endpoint, k) ==
    IF k = 0 THEN <<>> ELSE ItemsOfPages(endpoint, k - 1) \o get_page(endpoint, k).items

\* The first page that is short (fewer than per_page items, an empty page
\* included) or fails.
FirstShortPage(endpoint) ==
    CHOOSE p \in 1..(Len(endpoint.pages) + 1) :
        /\ ~get_page(endpoint, p).ok \/ Len(get_page(endpoint, p).items) < per_page
        /\ \A q \in 1..(p - 1) :
              get_page(endpoint, q).ok /\ Len(get_page(endpoint, q).items) = per_page

PageSizesOf(endpoint) == [p \in 1..Len(endpoint.pages) |-> Len(endpoint.pages[p].items)]

\* C8: the GitHub fetchers request pages 1, 2, 3, ... and stop with the first
\* page of fewer than 100 items; the result holds one record per public item
\* of the requested pages, in page order; pages of 100, 100 and 37 items take
\* 3 requests and give 237 records.
C8_Pagination ==
    (IsGitHubFetch /\ arg.user_ok) =>
        LET stop == FirstShortPage(arg)
            items == SelectSeq(ItemsOfPages(arg, stop), ItemIsPublic)
        IN /\ ret.requests = [p \in 1..stop |-> p]
           /\ ret.raised = ~get_page(arg, stop).ok
           /\ ~ret.raised =>
                /\ Len(ret.projects) = Len(items)
                /\ \A i \in 1..Len(items) :
                      ret.projects[i].full_name = ItemFullName(arg.kind, arg.login, items[i])
                /\ (PageSizesOf(arg) = <<100, 100, 37>> /\ items = ItemsOfPages(arg, stop)) =>
                      (Len(ret.requests) = 3 /\ Len(ret.projects) = 237)

\* Pages of 100, 100 and 37 public items were fetched with three requests.
C8_Witness ==
    /\ ret.op = "fetch_public_gists"
    /\ PageSizesOf(arg) = <<100, 100, 37>>
    /\ ret.requests = <<1, 2, 3>>
    /\ Len(ret.projects) = 237

\* C9: the HuggingFace fetchers return a record for every public item of the
\* account in the category, also for an account of more than 500 items.
C9_ListingComplete ==
    (IsHuggingFaceFetch /\ ~ret.raised) =>
        LET items == SelectSeq(arg.items, ItemIsPublic)
        IN /\ Len(ret.projects) = Len(items)
           /\ \A i \in 1..Len(items) : ret.projects[i].full_name = items[i].id

(***************************************************************************)
(* Spec: consecutive runs of main(), each of which may be interrupted.     *)
(***************************************************************************)

MaxRuns == 2

\* What the platforms may answer in a run.  A rejected token makes every
\* request fail with an error status.
Unauthorized(kind) ==
    [kind |-> kind, user_ok |-> FALSE, login |-> "u", ok |-> FALSE, pages |-> <<>>,
     items |-> <<>>]

OnePage(kind, items) ==
    [kind |-> kind, user_ok |-> TRUE, login |-> "u",
     pages |-> <<[ok |-> TRUE, items |-> items]>>]

RepoA(d) == [full_name |-> "u/a", created_at |-> IsoStrings[1], description |-> d]

PrivateRepo ==
    [full_name |-> "u/p", created_at |-> IsoStrings[1], description |-> "d1",
     private |-> TRUE]

GistG(created) ==
    [id |-> "g1", created_at |-> created, description |-> "d1", public |-> TRUE]

RepoEndpoints ==
    {Unauthorized("repos"),
     OnePage("repos", <<>>),
     OnePage("repos", <<RepoA("d1")>>),
     OnePage("repos", <<PrivateRepo, RepoA("d2")>>),
     OnePage("repos", <<RepoA("d1"), [full_name |-> "u/x"]>>),
     PagedEndpoint("repos", <<per_page, 37>>, 0, 2)}

GistEndpoints ==
    {Unauthorized("gists"),
     OnePage("gists", <<>>),
     OnePage("gists", <<GistG(IsoStrings[1])>>),
     OnePage("gists", <<GistG(IsoStrings[2])>>),
     PagedEndpoint("gists", <<per_page, per_page>>, 0, 2)}

ModelListings ==
    {Unauthorized("models"),
     Listing("models", 0, 0, TRUE),
     [Listing("models", 0, 0, TRUE) EXCEPT
        !.items = <<[id |-> "u/a", description |-> "d1"]>>],
     [Listing("models", 0, 0, TRUE) EXCEPT
        !.items = <<[id |-> "u/a", description |-> "d2", createdAt |-> IsoStrings[1]]>>]}

DatasetListings ==
    {Listing("datasets", 1, 0, FALSE),
     [Listing("datasets", 0, 0, TRUE) EXCEPT
        !.items = <<[id |-> "u/a", description |-> "d2", createdAt |-> "yesterday"]>>]}

SpaceListings ==
    {[Listing("spaces", 0, 0, TRUE) EXCEPT
        !.items = <<[id |-> "u/s", description |-> "d1", createdAt |-> IsoStrings[2]],
                    [description |-> "d1"]>>],
     Listing("spaces", 0, 0, TRUE),
     [Listing("spaces", 0, 0, TRUE) EXCEPT
        !.items = <<[id |-> "u/p", description |-> "d1", private |-> TRUE],
                    [id |-> "u/s", description |-> "d1", createdAt |-> IsoStrings[2]]>>]}

Answers(token, endpoints) ==
    IF token = "rejected" THEN {e \in endpoints : ~e.user_ok} ELSE endpoints

Init ==
    /\ RunIdle
    /\ projects = <<>>
    /\ arg = <<>>
    /\ ret = [op |-> "none"]
    /\ calls = 0

pureVars == <<arg, ret, calls>>

Terminal == {"done", "exit", "crashed", "killed"}

\* The process is started: python src/index_projects.py.
StartRun ==
    /\ pc \in Terminal \cup {"idle"}
    /\ runs < MaxRuns
    /\ runs' = runs + 1
    /\ creds' \in [Platforms -> {"missing", "rejected", "valid"}]
    /\ pc' = "init"
    /\ github_indexer' = FALSE
    /\ hf_indexer' = FALSE
    /\ projects' = <<>>
    /\ outcome' = NoOutcome
    /\ batch' = <<>>
    /\ UNCHANGED <<file, organized, durable, pureVars>>

\* A constructor that verifies the token with the platform.
indexer_initialized_verifying(token) == token = "valid"

\* GitHubIndexer() / HuggingFaceIndexer(): raises ValueError when no token is
\* set; the token is not sent to the platform here.
indexer_initialized(token) == token # "missing"

\* main, "Initialize indexers": both constructors, then the early return.
InitIndexers ==
    /\ pc = "init"
    /\ github_indexer' = indexer_initialized(creds["GitHub"])
    /\ hf_indexer' = indexer_initialized(creds["HuggingFace"])
    /\ pc' = IF ~github_indexer' /\ ~hf_indexer' THEN "exit" ELSE "load"
    /\ UNCHANGED <<runs, creds, projects, file, organized, outcome, batch, durable, pureVars>>

\* load_existing_index: None for a missing file and for one json.load or
\* ProjectIndex(**data) rejects.
load_existing_index(f) ==
    IF f.state = "complete" THEN [found |-> TRUE, projects |-> from_json(f.projects)]
    ELSE [found |-> FALSE, projects |-> <<>>]

AfterLoad == IF github_indexer THEN "repos" ELSE "hf"

AfterGitHub == IF hf_indexer THEN "hf" ELSE "sort"

\* main, "Load existing index or create new one".
LoadIndex ==
    /\ pc = "load"
    /\ projects' = load_existing_index(file).projects
    /\ pc' = AfterLoad
    /\ UNCHANGED <<runs, creds, github_indexer, hf_indexer, file, organized, outcome,
                   batch, durable, pureVars>>

Got(r) ==
    [status |-> IF r.raised THEN "failed" ELSE "ok",
     projects |-> IF r.raised THEN <<>> ELSE r.projects]

\* One try block of main: the fetch, then merge_projects unless it raised.
MergeFetched(category, r, next) ==
    /\ outcome' = [NoOutcome EXCEPT ![category] = Got(r)]
    /\ batch' = IF r.raised THEN <<>> ELSE r.projects
    /\ projects' = IF r.raised THEN projects ELSE merge_projects(projects, r.projects).projects
    /\ pc' = next
    /\ UNCHANGED <<runs, creds, github_indexer, hf_indexer, file, organized, durable, pureVars>>

\* main, "Fetch repositories".
FetchGitHubRepos ==
    /\ pc = "repos"
    /\ \E e \in Answers(creds["GitHub"], RepoEndpoints) :
          MergeFetched("github_repositories", fetch_public_repos(e), "gists")

\* main, "Fetch gists", and the rate limit check, which only logs.
FetchGitHubGists ==
    /\ pc = "gists"
    /\ \E e \in Answers(creds["GitHub"], GistEndpoints) :
          MergeFetched("github_gists", fetch_public_gists(e), AfterGitHub)

\* main, "Fetch HuggingFace projects": fetch_all, then merge_projects.
FetchHuggingFace ==
    /\ pc = "hf"
    /\ \E m \in Answers(creds["HuggingFace"], ModelListings \cup {Unauthorized("models")}),
          d \in Answers(creds["HuggingFace"], DatasetListings \cup {Unauthorized("datasets")}),
          s \in Answers(creds["HuggingFace"], SpaceListings \cup {Unauthorized("spaces")}) :
          /\ outcome' = [NoOutcome EXCEPT
                            !["huggingface_models"] = Got(fetch_public_models(m)),
                            !["huggingface_datasets"] = Got(fetch_public_datasets(d)),
                            !["huggingface_spaces"] = Got(fetch_public_spaces(s))]
          /\ batch' = fetch_all(m, d, s)
          /\ projects' = merge_projects(projects, batch').projects
    /\ pc' = "sort"
    /\ UNCHANGED <<runs, creds, github_indexer, hf_indexer, file, organized, durable, pureVars>>

\* main, index.sort_by_date(reverse=True); a TypeError is caught nowhere and
\* ends the process with a traceback.
SortIndex ==
    /\ pc = "sort"
    /\ LET r == sort_by_date(projects, TRUE)
       IN /\ projects' = r.projects
          /\ pc' = IF r.raised THEN "crashed" ELSE "save"
    /\ outcome' = NoOutcome
    /\ batch' = <<>>
    /\ UNCHANGED <<runs, creds, github_indexer, hf_indexer, file, organized, durable, pureVars>>

\* The type_counts dictionary of save_index.
type_counts(ps) ==
    [t \in {ps[i].type : i \in 1..Len(ps)} |-> Len(get_by_type(ps, t))]

\* save_index, "Update metadata"; now stands for datetime.now().
metadata_of(ps, now) ==
    [generated_at |-> now,
     total_projects |-> Len(ps),
     sources |-> [GitHub |-> Len(get_by_source(ps, "GitHub")),
                  HuggingFace |-> Len(get_by_source(ps, "HuggingFace"))],
     types |-> type_counts(ps)]

\* save_index up to open(output_file, "w"), which truncates the file.
SaveOpen ==
    /\ pc = "save"
    /\ file' = [state |-> "empty", metadata |-> <<>>, projects |-> <<>>]
    /\ pc' = "write"
    /\ UNCHANGED <<runs, creds, github_indexer, hf_indexer, projects, organized, outcome,
                   batch, durable, pureVars>>

\* save_index, f.write(index.to_json()) and the close that ends the with block.
SaveWrite ==
    /\ pc = "write"
    /\ file' = [state |-> "complete", metadata |-> metadata_of(projects, runs),
                projects |-> to_json(projects)]
    /\ durable' = file'
    /\ pc' = "export"
    /\ UNCHANGED <<runs, creds, github_indexer, hf_indexer, projects, organized, outcome,
                   batch, pureVars>>

\* The source and type create_organized_output selects for each export file.
CategoryOf(p) ==
    CASE p.source = "GitHub" /\ p.type = "Repository" -> "github_repositories"
      [] p.source = "GitHub" /\ p.type = "Gist" -> "github_gists"
      [] p.source = "HuggingFace" /\ p.type = "Model" -> "huggingface_models"
      [] p.source = "HuggingFace" /\ p.type = "Dataset" -> "huggingface_datasets"
      [] p.source = "HuggingFace" /\ p.type = "Space" -> "huggingface_spaces"
      [] OTHER -> "none"

\* create_organized_output: one file per category that has projects; the
\* file of an empty category is left as it is.
create_organized_output(ps, old) ==
    [c \in Categories |->
        LET selected == SelectSeq(ps, LAMBDA p : CategoryOf(p) = c)
        IN IF selected # <<>> THEN to_json(selected) ELSE old[c]]

\* main, "Create organized output", and the return.
CreateOrganizedOutput ==
    /\ pc = "export"
    /\ organized' = create_organized_output(projects, organized)
    /\ pc' = "done"
    /\ UNCHANGED <<runs, creds, github_indexer, hf_indexer, projects, file, outcome,
                   batch, durable, pureVars>>

\* The process is killed.  Inside the snapshot write the file is left as far
\* as it was flushed: empty, or a prefix of the JSON text.
Interrupt ==
    /\ pc \notin Terminal \cup {"idle"}
    /\ pc' = "killed"
    /\ IF pc = "write"
       THEN file' \in {[file EXCEPT !.state = "empty"], [file EXCEPT !.state = "truncated"]}
       ELSE file' = file
    /\ UNCHANGED <<runs, creds, github_indexer, hf_indexer, projects, organized, outcome,
                   batch, durable, pureVars>>

Next ==
    \/ StartRun
    \/ InitIndexers
    \/ LoadIndex
    \/ FetchGitHubRepos
    \/ FetchGitHubGists
    \/ FetchHuggingFace
    \/ SortIndex
    \/ SaveOpen
    \/ SaveWrite
    \/ CreateOrganizedOutput
    \/ Interrupt

Spec == Init /\ [][Next]_vars

(***************************************************************************)
(* Properties of the runs.                                                 *)
(***************************************************************************)

UniqueKeys(ps) ==
    \A i, j \in 1..Len(ps) : KeyPair(ps[i]) = KeyPair(ps[j]) => i = j

\* C1: no two records of the index, in memory or in the snapshot, share the
\* same (source, full_name) pair, across any number of runs.
C1_KeyUniqueness == UniqueKeys(projects) /\ UniqueKeys(file.projects)

\* A second run merged a batch that holds one key twice into the index it
\* loaded from the snapshot of the first.
C1_Witness ==
    /\ runs = 2
    /\ pc = "sort"
    /\ file.state = "complete"
    /\ Len(file.projects) >= 2
    /\ Len(batch) = 3
    /\ KeyPair(batch[1]) = KeyPair(batch[2])
    /\ \E i \in 1..Len(file.projects) : KeyPair(file.projects[i]) = KeyPair(batch[1])
    /\ Len(projects) = 4

GitHubCategories == <<"github_repositories", "github_gists">>

HuggingFaceCategories == <<"huggingface_models", "huggingface_datasets", "huggingface_spaces">>

\* The records of the categories that did not fail, in the order fetched.
RECURSIVE Contributed(_, _, _)
Contributed(got, categories, k) ==
    IF k = 0 THEN <<>>
    ELSE Contributed(got, categories, k - 1)
         \o (IF got[categories[k]].status = "ok" THEN got[categories[k]].projects ELSE <<>>)

C4Step ==
    (pc \in {"repos", "gists", "hf"} /\ pc' \notin {pc, "killed"}) =>
        /\ \A c \in Categories :
              outcome'[c].status = "failed" =>
                  \A i \in 1..Len(batch') : CategoryOf(batch'[i]) # c
        /\ batch' = Contributed(outcome', GitHubCategories, 2)
                    \o Contributed(outcome', HuggingFaceCategories, 3)
        /\ projects' = merge_projects(projects, batch').projects
        /\ (\A c \in Categories : outcome'[c].status # "ok") => projects' = projects
        /\ pc = "repos" =>
              /\ outcome'["github_repositories"].status # "none"
              /\ pc' = "gists"
        /\ pc = "gists" =>
              /\ outcome'["github_gists"].status # "none"
              /\ pc' = IF hf_indexer THEN "hf" ELSE "sort"
        /\ pc = "hf" =>
              /\ \A k \in 1..3 : outcome'[HuggingFaceCategories[k]].status # "none"
              /\ pc' = "sort"

\* C4: a category whose fetch fails contributes no record and leaves the
\* index as it was, and the categories after it are still fetched and merged.
C4_FailureIsolation == [][C4Step]_vars

\* The models fetch failed; datasets and spaces were fetched and merged.
C4_Witness ==
    /\ pc = "sort"
    /\ outcome["huggingface_models"].status = "failed"
    /\ outcome["huggingface_datasets"].status = "ok"
    /\ outcome["huggingface_spaces"].status = "ok"
    /\ Len(batch) = 2
    /\ Len(projects) = 4
    /\ \E i \in 1..Len(projects) : CategoryOf(projects[i]) = "github_gists"

\* C5: a run in which an indexer initialised always gets through the sort, the
\* snapshot write and the export and returns normally, whatever records the
\* index holds.
C5_NonFatalCompletion ==
    (github_indexer \/ hf_indexer) =>
        /\ pc # "crashed"
        /\ pc \in {"export", "done"} =>
              (file.state = "complete" /\ file.metadata.generated_at = runs)

C6OriginalStep ==
    /\ (pc = "init" /\ pc' \notin {"init", "killed"}) =>
          /\ github_indexer' = (creds["GitHub"] = "valid")
          /\ hf_indexer' = (creds["HuggingFace"] = "valid")
          /\ (pc' = "exit") = (\A p \in Platforms : creds[p] # "valid")
          /\ (pc' = "load") = (\E p \in Platforms : creds[p] = "valid")
    /\ (pc = "load" /\ pc' \notin {"load", "killed"}) =>
          pc' = IF creds["GitHub"] = "valid" THEN "repos" ELSE "hf"
    /\ (pc \notin Terminal \cup {"idle"} /\ \A p \in Platforms : creds[p] # "valid") =>
          (file' = file /\ organized' = organized)

\* C6 as stated: with credentials missing or rejected for every platform no
\* indexer is initialised and the run ends early, writing nothing; with
\* credentials missing or rejected for one platform the run goes on with the
\* other.
C6_FatalConfig == [][C6OriginalStep]_vars

C6AmendedStep ==
    /\ (pc = "init" /\ pc' \notin {"init", "killed"}) =>
          /\ github_indexer' = (creds["GitHub"] # "missing")
          /\ hf_indexer' = (creds["HuggingFace"] # "missing")
          /\ (pc' = "exit") = (\A p \in Platforms : creds[p] = "missing")
          /\ (pc' = "load") = (\E p \in Platforms : creds[p] # "missing")
    /\ (pc = "load" /\ pc' \notin {"load", "killed"}) =>
          pc' = IF creds["GitHub"] # "missing" THEN "repos" ELSE "hf"
    /\ (pc \notin Terminal \cup {"idle"} /\ \A p \in Platforms : creds[p] = "missing") =>
          (file' = file /\ organized' = organized)
    /\ \A c \in Categories :
          LET platform == IF c \in {"github_repositories", "github_gists"}
                          THEN "GitHub" ELSE "HuggingFace"
          IN (creds[platform] = "rejected" /\ outcome'[c].status # "none") =>
                 outcome'[c].status = "failed"

\* C6, amended: with credentials missing for every platform no indexer is
\* initialised and the run ends early, writing nothing; with credentials
\* missing for one platform the run goes on with the other; a rejected token
\* does not keep an indexer from initialising, it makes each of its fetches fail.
C6_FatalConfigMissing == [][C6AmendedStep]_vars

\* No token is set and the run has ended early, beside the snapshot and the
\* export files of an earlier run.
C6_Witness ==
    /\ pc = "exit"
    /\ \A p \in Platforms : creds[p] = "missing"
    /\ file.state = "complete"
    /\ Len(file.projects) >= 2
    /\ \E c \in Categories : organized[c] # <<>>

\* C7: sort_by_date(reverse=True) completes on any index, leaves the records
\* in non-increasing created_at order with those lacking created_at last and
\* equal ones in their previous order; [None, T1, T2] becomes [T2, T1, None].
C7_SortAbsentLast ==
    LET r == sort_by_date(projects, TRUE)
        n == Len(projects)
        date(i) == r.projects[i].created_at
    IN /\ ~r.raised
       /\ \A i, j \in 1..n :
             i < j =>
                /\ date(j).present => (date(i).present /\ date(i).t >= date(j).t)
                /\ date(i) = date(j) =>
                      list_index(projects, r.projects[i]) < list_index(projects, r.projects[j])
       /\ [i \in 1..n |-> projects[i].created_at] = <<NoDate, AwareDate(1), AwareDate(2)>> =>
             [i \in 1..n |-> date(i)] = <<AwareDate(2), AwareDate(1), NoDate>>

\* C10: after an interruption the snapshot file is absent or holds the whole
\* content of the last write that completed.
C10_InterruptionSafe ==
    pc = "killed" => (file.state \in {"absent", "complete"} /\ file = durable)

(***************************************************************************)
(* Properties of the snapshot.                                             *)
(***************************************************************************)

RECURSIVE SumOf(_)
SumOf(f) ==
    IF DOMAIN f = {} THEN 0
    ELSE LET k == CHOOSE x \in DOMAIN f : TRUE
         IN f[k] + SumOf([x \in DOMAIN f \ {k} |-> f[x]])

CountWhere(ps, Test(_)) == Cardinality({i \in 1..Len(ps) : Test(ps[i])})

\* C11: in every snapshot written, total_projects is the number of records,
\* sources[s] the number of records of source s and types[k] the number of
\* records of type k, so that both sets of counts sum to total_projects.
C11_MetadataConsistent ==
    file.state = "complete" =>
        LET ps == file.projects
            md == file.metadata
        IN /\ md.total_projects = Len(ps)
           /\ \A i \in 1..Len(ps) :
                 ps[i].source \in DOMAIN md.sources /\ ps[i].type \in DOMAIN md.types
           /\ \A s \in DOMAIN md.sources :
                 md.sources[s] = CountWhere(ps, LAMBDA p : p.source = s)
           /\ \A k \in DOMAIN md.types :
                 md.types[k] = CountWhere(ps, LAMBDA p : p.type = k)
           /\ SumOf(md.sources) = md.total_projects
           /\ SumOf(md.types) = md.total_projects

\* A second run wrote a snapshot of two GitHub and two HuggingFace records,
\* some of them loaded from the snapshot of the first.
C11_Witness ==
    /\ runs = 2
    /\ pc = "done"
    /\ file.state = "complete"
    /\ file.metadata.generated_at = 2
    /\ file.metadata.total_projects = 4
    /\ file.metadata.sources["GitHub"] = 2
    /\ file.metadata.sources["HuggingFace"] = 2
    /\ Cardinality(DOMAIN file.metadata.types) = 4

C12Step ==
    /\ (pc = "load" /\ pc' \notin {"load", "killed"}) =>
          /\ pc' \in {"repos", "hf"}
          /\ file.state = "complete" => to_json(projects') = file.projects
          /\ file.state # "complete" => projects' = <<>>
    /\ (file.state # "complete" /\ pc \in {"load", "repos", "gists", "hf", "sort"}
            /\ pc' \notin {pc, "killed"}) =>
          pc' \in {"repos", "gists", "hf", "sort", "save"}
    /\ (pc = "write" /\ pc' \notin {"write", "killed"}) =>
          (file'.state = "complete" /\ file'.metadata.generated_at = runs)

\* C12: loading never aborts the run: without a loadable snapshot (missing,
\* empty or truncated file) the run goes on from an empty index, fetches,
\* merges and writes a new snapshot; with a valid snapshot it starts from
\* exactly the stored records in their stored order.
C12_LoadTolerant == [][C12Step]_vars

(***************************************************************************)
(* Properties of the fetchers' filter.                                     *)
(***************************************************************************)

\* The items the fetcher was served: the pages it requested, or the one
\* answer to its request with limit 500.
FetchedItems ==
    IF IsGitHubFetch THEN ItemsOfPages(arg, Len(ret.requests))
    ELSE [k \in 1..(IF Len(arg.items) < limit THEN Len(arg.items) ELSE limit) |->
            arg.items[k]]

ExplicitlyNonPublic(kind, item) ==
    IF kind = "gists" THEN "public" \in DOMAIN item /\ item.public = FALSE
    ELSE "private" \in DOMAIN item /\ item.private = TRUE

\* C13: an item flagged non-public (private = true; public = false for a
\* gist) gives no record in the fetcher's output, and every other item of the
\* fetched pages gives exactly one record, in page order.
C13_NonPublicFiltered ==
    (ret.op # "none" /\ ~ret.raised) =>
        LET kept == {i \in 1..Len(FetchedItems) :
                        ~ExplicitlyNonPublic(arg.kind, FetchedItems[i])}
            NameOf(i) == ItemFullName(arg.kind, arg.login, FetchedItems[i])
        IN /\ Len(ret.projects) = Cardinality(kept)
           /\ \A i \in 1..Len(FetchedItems) :
                 LET records == {j \in 1..Len(ret.projects) :
                                    ret.projects[j].full_name = NameOf(i)}
                 IN IF i \in kept
                    THEN records = {Cardinality({k \in kept : k <= i})}
                    ELSE records = {}

\* A listing of 37 items, every third one flagged private and the others
\* without a flag, was fetched: 25 records.
C13_Witness ==
    /\ ret.op = "fetch_public_spaces"
    /\ ~ret.raised
    /\ Len(FetchedItems) = 37
    /\ \E i \in 1..37 : ExplicitlyNonPublic(arg.kind, FetchedItems[i])
    /\ \E i \in 1..37 : "private" \notin DOMAIN FetchedItems[i]
    /\ Len(ret.projects) = 25

(***************************************************************************)
(* SpecKey: two records with arbitrary source and full_name strings; the   *)
(* first is added to an empty index, the second is looked up and merged.   *)
(***************************************************************************)

KeySources == {"a", "a:b", "GitHub"}

KeyNames == {"c", "b:c", "u/a"}

KeyInputs ==
    {<<Project(s1, "Repository", n1, "d1", NoDate), Project(s2, "Repository", n2, "d2", NoDate)>> :
        s1 \in KeySources, n1 \in KeyNames, s2 \in KeySources, n2 \in KeyNames}

InitKey ==
    /\ RunIdle
    /\ projects = <<>>
    /\ arg \in KeyInputs
    /\ ret = [op |-> "none"]
    /\ calls = 0

\* index.add_project(arg[1])
AddFirst ==
    /\ calls = 0
    /\ projects' = add_project(projects, arg[1])
    /\ ret' = [op |-> "add_project"]
    /\ calls' = 1
    /\ UNCHANGED <<arg, runVars>>

\* index.find_project(arg[2])
FindSecond ==
    /\ calls = 1
    /\ ret' = [op |-> "find_project", existing |-> find_project(projects, arg[2])]
    /\ calls' = 2
    /\ UNCHANGED <<arg, projects, runVars>>

\* index.merge_project(arg[2])
MergeSecond ==
    /\ calls = 2
    /\ LET r == merge_project(projects, arg[2])
       IN /\ projects' = r.projects
          /\ ret' = [op |-> "merge_project", before |-> projects, new |-> arg[2],
                     added |-> r.added]
    /\ calls' = 3
    /\ UNCHANGED <<arg, runVars>>

NextKey == AddFirst \/ FindSecond \/ MergeSecond

SpecKey == InitKey /\ [][NextKey]_vars

\* C14: two records have the same key exactly if they have the same source
\* and the same full_name, so find_project finds and merge_project replaces
\* a record only for a record of the same (source, full_name) pair.
C14_KeyInjective ==
    /\ (get_project_key(arg[1]) = get_project_key(arg[2])) <=> (KeyPair(arg[1]) = KeyPair(arg[2]))
    /\ ret.op = "find_project" => ((ret.existing # 0) <=> (KeyPair(arg[1]) = KeyPair(arg[2])))
    /\ (calls = 3 /\ KeyPair(arg[1]) # KeyPair(arg[2])) =>
          (ret.added /\ projects = <<arg[1], arg[2]>>)

(***************************************************************************)
(* Retention of records over a run.                                        *)
(***************************************************************************)

KeysOf(ps) == {KeyPair(ps[i]) : i \in 1..Len(ps)}

\* The record was loaded from the snapshot the run found.
LoadedFromSnapshot(p) ==
    /\ file.state = "complete"
    /\ \E k \in 1..Len(file.projects) : <<file.projects[k]>> = to_json(<<p>>)

\* The item of the record (its platform, category and name) is among the
\* records the step fetched.
ReturnedBy(p, fetched) ==
    \E j \in 1..Len(fetched) :
        fetched[j].source = p.source /\ fetched[j].type = p.type
            /\ fetched[j].full_name = p.full_name

C15Step ==
    /\ (pc \in {"repos", "gists", "hf", "sort"} /\ pc' # "killed") =>
          /\ KeysOf(projects) \subseteq KeysOf(projects')
          /\ Len(projects') >= Len(projects)
          /\ \A i \in 1..Len(projects) :
                (LoadedFromSnapshot(projects[i]) /\ ~ReturnedBy(projects[i], batch')) =>
                    \E j \in 1..Len(projects') : projects'[j] = projects[i]
    /\ (pc = "write" /\ pc' = "export") =>
          (file'.state = "complete" /\ file'.projects = to_json(projects))

\* C15: no merge and no sort removes a key from the index or lowers the
\* number of records, and a record loaded from the prior snapshot whose item
\* this run's fetches do not return is written unchanged to the new snapshot.
C15_Retention == [][C15Step]_vars

====
